---- MODULE Spec2Model ----
(***************************************************************************)
(* Investigation planning assistant (YergZakon/investigation).             *)
(*                                                                         *)
(*   utils/pdf_parser.py          extract_text_from_pdf                    *)
(*   utils/methodology_handler.py MethodologyHandler                       *)
(*   streamlit_app.py             extract_facts, create_investigation_plan,*)
(*                                the upload handler, the planning handler *)
(*                                                                         *)
(* Texts are sequences of tokens.  A token is a string; the tokens " " and *)
(* "\n" are whitespace.  Python exceptions are records [exc, msg]: the     *)
(* exception class and the message the code builds (its fixed part).       *)
(***************************************************************************)
EXTENDS Integers, Sequences, FiniteSets, TLC

VARIABLES
    vector_store,      \* MethodologyHandler.vector_store of the manager under test
    session_handler,   \* st.session_state.methodology_handler
    index_files,       \* persisted indexes on disk, by path
    directories,       \* directories created under storage/
    methodology_files, \* uploaded PDFs written under storage/methodologies/
    result_files,      \* persisted results on disk, by path
    history,           \* what has been ingested and requested so far
    last               \* the last operation, its inputs and its outcome

vars == <<vector_store, session_handler, index_files, directories,
          methodology_files, result_files, history, last>>

(***************************************************************************)
(* Bounds of the model.                                                    *)
(***************************************************************************)
MaxPages == 3

(***************************************************************************)
(* Texts.                                                                  *)
(***************************************************************************)
NL == "\n"

Whitespace == {" ", NL}

\* str.strip(): drop leading and trailing whitespace.
RECURSIVE LStrip(_)
LStrip(text) ==
    IF text # <<>> /\ Head(text) \in Whitespace THEN LStrip(Tail(text)) ELSE text

RECURSIVE RStrip(_)
RStrip(text) ==
    IF text # <<>> /\ text[Len(text)] \in Whitespace
    THEN RStrip(SubSeq(text, 1, Len(text) - 1))
    ELSE text

Strip(text) == RStrip(LStrip(text))

\* "\n".join(parts)
RECURSIVE JoinLines(_)
JoinLines(parts) ==
    IF parts = <<>> THEN <<>>
    ELSE IF Len(parts) = 1 THEN parts[1]
    ELSE parts[1] \o <<NL>> \o JoinLines(Tail(parts))

\* All sequences over S of length at most n.
SeqsUpTo(S, n) == UNION {[1..m -> S] : m \in 0..n}

(***************************************************************************)
(* utils/pdf_parser.py                                                     *)
(*                                                                         *)
(* The messages of the exceptions, by the line that builds them:           *)
(*   "file not found"     line 37      "not a PDF"          line 41        *)
(*   "PDF is encrypted"   line 53      "PDF read error"     line 75        *)
(*   "no text extracted"  line 79      "unexpected error"   line 94        *)
(* A file is given by what the code asks of it: whether the path exists,   *)
(* its extension, what PdfReader does with it, whether it is encrypted,    *)
(* and what extract_text() does on each page.                              *)
(***************************************************************************)
\* The outcome of a call: an exception raised, or a value returned.
Raised(exc, msg) == [ok |-> FALSE, exc |-> exc, msg |-> msg]

Returned(value) == [ok |-> TRUE, value |-> value]

\* pdf_path.lower()
Lower(ext) == IF ext = ".PDF" THEN ".pdf" ELSE ext

\* A faulty page step, for comparison: an empty page is appended, not skipped.
ExtractPage_SkipNothing(page, page_num, acc) ==
    IF page.raises
    THEN [acc EXCEPT !.log = Append(@, [level |-> "error", page |-> page_num])]
    ELSE [acc EXCEPT !.text_content = Append(@, page.text)]

\* The page loop: what page.extract_text() gives for each page, in order.
\* A page either raises or returns a text, which may be empty.
ExtractPage(page, page_num, acc) ==
    IF page.raises
    THEN [acc EXCEPT !.log = Append(@, [level |-> "error", page |-> page_num])]
    ELSE IF page.text = <<>>
    THEN [acc EXCEPT !.log = Append(@, [level |-> "warning", page |-> page_num])]
    ELSE [acc EXCEPT !.text_content = Append(@, page.text)]

RECURSIVE ExtractPages(_, _, _)
ExtractPages(pages, page_num, acc) ==
    IF page_num > Len(pages) THEN acc
    ELSE ExtractPages(pages, page_num + 1, ExtractPage(pages[page_num], page_num, acc))

\* The with-block: open, PdfReader, the encryption test, the page loop.
ReadPdf(pdf) ==
    IF pdf.reader = "PdfReadError" THEN Raised("PDFParsingError", "PDF read error")
    ELSE IF pdf.reader = "Exception" THEN Raised("PDFParsingError", "unexpected error")
    ELSE IF pdf.is_encrypted THEN Raised("PDFParsingError", "PDF is encrypted")
    ELSE LET acc == ExtractPages(pdf.pages, 1, [text_content |-> <<>>, log |-> <<>>])
         IN  IF acc.text_content = <<>>
             THEN Raised("PDFParsingError", "no text extracted")
             ELSE Returned(JoinLines(acc.text_content))

\* A faulty variant, for comparison: the extension is tested before the path.
extract_text_from_pdf_ExtensionFirst(pdf) ==
    IF Lower(pdf.ext) # ".pdf" THEN Raised("PDFParsingError", "not a PDF")
    ELSE IF ~pdf.exists THEN Raised("FileNotFoundError", "file not found")
    ELSE ReadPdf(pdf)

\* extract_text_from_pdf(pdf_path)
extract_text_from_pdf(pdf) ==
    IF ~pdf.exists THEN Raised("FileNotFoundError", "file not found")
    ELSE IF Lower(pdf.ext) # ".pdf" THEN Raised("PDFParsingError", "not a PDF")
    ELSE ReadPdf(pdf)

\* The log lines of the page loop (warnings for empty pages, errors for
\* pages that raised).
PageLog(pdf) == ExtractPages(pdf.pages, 1, [text_content |-> <<>>, log |-> <<>>]).log

(***************************************************************************)
(* utils/methodology_handler.py                                            *)
(*                                                                         *)
(* The text splitter, the embedding provider and the FAISS store are       *)
(* libraries; they are modelled by what the handler relies on.             *)
(*  - Splitter: a non-whitespace token stands for a block of text that     *)
(*    fills one chunk; the splitter cuts at separators and drops           *)
(*    whitespace (chunks are stripped, empty ones dropped), so the empty   *)
(*    text and a blank text give no chunk.                                 *)
(*  - Embeddings: vectors of equal norm, so that cosine similarity orders  *)
(*    as the dot product and L2 distance as its opposite.                  *)
(*  - FAISS: a flat L2 index over the vectors plus the docstore.           *)
(***************************************************************************)
DefaultTopK == 3

Range(seq) == {seq[i] : i \in 1..Len(seq)}

NotWhitespace(token) == token \notin Whitespace

\* RecursiveCharacterTextSplitter.create_documents([text])
create_documents(text) ==
    LET pieces == SelectSeq(text, NotWhitespace)
    IN  [i \in 1..Len(pieces) |-> [page_content |-> pieces[i]]]

\* for i, doc in enumerate(documents): doc.metadata = {"chunk_id": i, ...}
\* (chunk_size, the character count of the chunk, is not kept: a token has
\* no length here).
WithMetadata(documents) ==
    [i \in 1..Len(documents) |->
        [page_content |-> documents[i].page_content,
         chunk_id |-> i - 1,
         source |-> "methodology"]]

\* Twelve directions on the circle of radius 5.
Circle ==
    << <<5, 0>>, <<4, 3>>, <<3, 4>>, <<0, 5>>, <<-3, 4>>, <<-4, 3>>,
       <<-5, 0>>, <<-4, -3>>, <<-3, -4>>, <<0, -5>>, <<3, -4>>, <<4, -3>> >>

\* The tokens of the methodology texts and of the queries, numbered.
TokenNames ==
    << "a1", "a2", "a3", "a4", "a5", "a6", "a7", "a8", "a9",
       "b1", "b2", "c1", "c2", "c3", "c4", "p1", "p2", "p3",
       "q1", "q2", "f1", "f2" >>

\* The embedding provider: a fixed vector for each text, here by its token.
EmbedToken(token) ==
    IF \E i \in 1..Len(TokenNames) : TokenNames[i] = token
    THEN Circle[((5 * (CHOOSE i \in 1..Len(TokenNames) : TokenNames[i] = token)) % 12) + 1]
    ELSE Circle[1]

\* embed_query(text): the vector of the text.
EmbedText(text) ==
    LET words == SelectSeq(text, NotWhitespace)
    IN  IF words = <<>> THEN Circle[1] ELSE EmbedToken(words[1])

Dot(u, v) == u[1] * v[1] + u[2] * v[2]

L2(u, v) == (u[1] - v[1]) * (u[1] - v[1]) + (u[2] - v[2]) * (u[2] - v[2])

NoStore == [active |-> FALSE, docstore |-> <<>>, index |-> <<>>]

\* FAISS.from_documents(documents, embeddings).  fail_at = 0: every embedding
\* call succeeds; fail_at = i: the call for document i fails.  With no
\* document there is no vector to size the index by: embeddings[0] raises.
from_documents(documents, fail_at) ==
    IF fail_at \in 1..Len(documents)
    THEN Raised("EmbeddingError", "embedding request failed")
    ELSE IF documents = <<>>
    THEN Raised("IndexError", "list index out of range")
    ELSE Returned([active |-> TRUE,
                   docstore |-> documents,
                   index |-> [i \in 1..Len(documents) |->
                                 EmbedToken(documents[i].page_content)]])

\* index.search(query, n): the positions of the n nearest vectors, nearest
\* first, the lower position first among equals.
RECURSIVE Nearest(_, _, _, _)
Nearest(index, query, n, chosen) ==
    IF Len(chosen) >= n \/ Len(chosen) >= Len(index) THEN chosen
    ELSE LET rest == (1..Len(index)) \ Range(chosen)
             best == CHOOSE i \in rest : \A j \in rest :
                        \/ L2(index[i], query) < L2(index[j], query)
                        \/ L2(index[i], query) = L2(index[j], query) /\ i <= j
         IN  Nearest(index, query, n, Append(chosen, best))

Max(S) == CHOOSE x \in S : \A y \in S : y <= x

\* maximal_marginal_relevance(query, embedding_list, lambda_mult=0.5, k):
\* the positions in embedding_list picked, in order.
MmrScore(query, embs, i, idxs) ==
    Dot(query, embs[i]) - Max({Dot(embs[i], embs[idxs[s]]) : s \in 1..Len(idxs)})

RECURSIVE MmrLoop(_, _, _, _)
MmrLoop(query, embs, k, idxs) ==
    IF Len(idxs) >= k \/ Len(idxs) >= Len(embs) THEN idxs
    ELSE LET rest == (1..Len(embs)) \ Range(idxs)
             best == CHOOSE i \in rest : \A j \in rest :
                        \/ MmrScore(query, embs, i, idxs) > MmrScore(query, embs, j, idxs)
                        \/ MmrScore(query, embs, i, idxs) = MmrScore(query, embs, j, idxs)
                             /\ i <= j
         IN  MmrLoop(query, embs, k, Append(idxs, best))

maximal_marginal_relevance(query, embs, k) ==
    IF k <= 0 \/ embs = <<>> THEN <<>>
    ELSE LET most_similar == CHOOSE i \in 1..Len(embs) : \A j \in 1..Len(embs) :
                                \/ Dot(query, embs[i]) > Dot(query, embs[j])
                                \/ Dot(query, embs[i]) = Dot(query, embs[j]) /\ i <= j
         IN  MmrLoop(query, embs, k, <<most_similar>>)

\* FAISS.max_marginal_relevance_search(query, k, fetch_k): the documents picked.
max_marginal_relevance_search(store, query, k, fetch_k) ==
    LET embedding == EmbedText(query)
        indices == Nearest(store.index, embedding, fetch_k, <<>>)
        embs == [i \in 1..Len(indices) |-> store.index[indices[i]]]
        selected == maximal_marginal_relevance(embedding, embs, k)
    IN  [i \in 1..Len(selected) |-> store.docstore[indices[selected[i]]]]

\* A faulty variant, for comparison: the new documents are added to the index
\* already held.
process_methodology_Merging(store, methodology_text, fail_at) ==
    LET documents == WithMetadata(create_documents(methodology_text))
        built == from_documents(store.docstore \o documents, fail_at)
    IN  IF built.ok
        THEN [outcome |-> Returned(Len(documents)), vector_store |-> built.value]
        ELSE [outcome |-> built, vector_store |-> store]

\* A faulty variant, for comparison: the documents embedded before the failure
\* are kept as the index.
process_methodology_KeepsPartial(store, methodology_text, fail_at) ==
    LET documents == WithMetadata(create_documents(methodology_text))
        built == from_documents(documents, fail_at)
    IN  IF built.ok
        THEN [outcome |-> Returned(Len(documents)), vector_store |-> built.value]
        ELSE [outcome |-> built,
              vector_store |-> IF fail_at > 1
                               THEN from_documents(SubSeq(documents, 1, fail_at - 1), 0).value
                               ELSE NoStore]

\* MethodologyHandler.process_methodology: the outcome of the call and
\* self.vector_store after it.
process_methodology(store, methodology_text, fail_at) ==
    LET documents == WithMetadata(create_documents(methodology_text))
        built == from_documents(documents, fail_at)
    IN  IF built.ok
        THEN [outcome |-> Returned(Len(documents)), vector_store |-> built.value]
        ELSE [outcome |-> built, vector_store |-> store]

\* A faulty variant, for comparison: no test of self.vector_store.
find_relevant_recommendations_NoGuard(store, query, top_k, embed_ok) ==
    IF ~embed_ok THEN Raised("EmbeddingError", "embedding request failed")
    ELSE Returned(max_marginal_relevance_search(store, query, top_k, top_k * 2))

\* A faulty variant, for comparison: k is passed as large as fetch_k.
find_relevant_recommendations_FetchAll(store, query, top_k, embed_ok) ==
    IF ~store.active THEN Raised("ValueError", "methodology not loaded")
    ELSE IF ~embed_ok THEN Raised("EmbeddingError", "embedding request failed")
    ELSE Returned(max_marginal_relevance_search(store, query, top_k * 2, top_k * 2))

\* MethodologyHandler.find_relevant_recommendations(query, top_k)
find_relevant_recommendations(store, query, top_k, embed_ok) ==
    IF ~store.active THEN Raised("ValueError", "methodology not loaded")
    ELSE IF ~embed_ok THEN Raised("EmbeddingError", "embedding request failed")
    ELSE Returned(max_marginal_relevance_search(store, query, top_k, top_k * 2))

ContextHeader == "context header"

\* MethodologyHandler.get_recommendations_context(case_facts): the header and
\* one numbered line "<n>. [Part <chunk_id>] <page_content>" per document.
get_recommendations_context(store, case_facts, embed_ok) ==
    LET found == find_relevant_recommendations(store, case_facts, DefaultTopK, embed_ok)
    IN  IF ~found.ok THEN found
        ELSE Returned([header |-> ContextHeader,
                       lines |-> [i \in 1..Len(found.value) |->
                                     [n |-> i,
                                      chunk_id |-> found.value[i].chunk_id,
                                      page_content |-> found.value[i].page_content]]])

\* MethodologyHandler.save_index(path): the files after the call.
save_index(store, path, files) ==
    IF store.active THEN [files EXCEPT ![path] = store] ELSE files

\* MethodologyHandler.load_index(path): the outcome and self.vector_store after
\* it.  FAISS.load_local may refuse to deserialize (load_ok = FALSE).
load_index(store, path, files, load_ok) ==
    IF ~files[path].active
    THEN [outcome |-> Raised("FileNotFoundError", "index not found"), vector_store |-> store]
    ELSE IF ~load_ok
    THEN [outcome |-> Raised("ValueError", "deserialization refused"), vector_store |-> store]
    ELSE [outcome |-> Returned("None"), vector_store |-> files[path]]

(***************************************************************************)
(* streamlit_app.py                                                        *)
(*                                                                         *)
(* The Generation Client (client.chat.completions.create) answers a call   *)
(* with a response: a text, a message without content, or a failure (a     *)
(* timeout, an API error).                                                 *)
(***************************************************************************)
\* What extract_facts and create_investigation_plan give back: the outcome of
\* the call, the calls made to the Generation Client and to retrieval, the
\* warnings shown and the payload of the prompt sent.
NoPrompt == [context |-> "none", payload |-> <<>>]

Result(outcome, gen_calls, retrieval_calls, warnings, prompt) ==
    [outcome |-> outcome, gen_calls |-> gen_calls, retrieval_calls |-> retrieval_calls,
     warnings |-> warnings, prompt |-> prompt]

\* response.choices[0].message.content.strip(), inside the try.
Completion(response, error_prefix) ==
    IF response.kind = "text" THEN Returned(Strip(response.content))
    ELSE IF response.kind = "null"
    THEN Returned(<<error_prefix, "AttributeError">>)
    ELSE Returned(<<error_prefix, response.kind>>)

\* A faulty variant, for comparison: no test of the description.
extract_facts_NoValidation(case_description, response) ==
    Result(Completion(response, "Error extracting facts: "), 1, 0, <<>>,
           [context |-> "none", payload |-> case_description])

\* A faulty variant, for comparison: a failed request is sent a second time.
extract_facts_Retrying(case_description, response) ==
    IF Strip(case_description) = <<>>
    THEN Result(Returned(<<"Error: the case description must not be empty">>),
                0, 0, <<>>, NoPrompt)
    ELSE Result(Completion(response, "Error extracting facts: "),
                IF response.kind \in {"text", "null"} THEN 1 ELSE 2, 0, <<>>,
                [context |-> "none", payload |-> case_description])

\* extract_facts(client, case_description)
extract_facts(case_description, response) ==
    IF Strip(case_description) = <<>>
    THEN Result(Returned(<<"Error: the case description must not be empty">>),
                0, 0, <<>>, NoPrompt)
    ELSE Result(Completion(response, "Error extracting facts: "), 1, 0, <<>>,
                [context |-> "none", payload |-> case_description])

NoContext == [header |-> "", lines |-> <<>>]

\* st.session_state.methodology_handler = None
NoHandler == [present |-> FALSE, vector_store |-> NoStore]

\* create_investigation_plan(client, facts, methodology_handler)
create_investigation_plan(facts, methodology_handler, embed_ok, response) ==
    IF Strip(facts) = <<>>
    THEN Result(Returned(<<"Error: the facts must not be empty">>), 0, 0, <<>>, NoPrompt)
    ELSE LET retrieved ==
                 IF methodology_handler.present
                 THEN get_recommendations_context(methodology_handler.vector_store,
                                                  facts, embed_ok)
                 ELSE Returned(NoContext)
             methodology_context == IF retrieved.ok THEN retrieved.value ELSE NoContext
         IN  Result(Completion(response, "Error creating the plan: "),
                    1,
                    IF methodology_handler.present THEN 1 ELSE 0,
                    IF retrieved.ok THEN <<>> ELSE <<retrieved.exc>>,
                    [context |-> methodology_context, payload |-> facts])

\* create_directories()
StorageDirectories ==
    {<<"storage", "methodologies">>, <<"storage", "results">>, <<"storage", "files">>}

IndexPath == "storage/methodologies/index"

\* A faulty variant, for comparison: one file for every case number.
ResultsPath_OneFile(case_number) == <<"storage", "results", "plan.json">>

\* A case number is written as its parts between the "/" of the string: the
\* empty string is <<"">>.  f"storage/results/plan_{case_number}.json"
ResultsPath(case_number) ==
    LET n == Len(case_number)
    IN  <<"storage", "results">> \o
        [i \in 1..n |-> (IF i = 1 THEN "plan_" ELSE "") \o case_number[i]
                           \o (IF i = n THEN ".json" ELSE "")]

ParentDirectory(path) == SubSeq(path, 1, Len(path) - 1)

\* open(path, "w") needs the directory of the file.
CanWrite(path, dirs) == ParentDirectory(path) \in dirs

(***************************************************************************)
(* Inputs.                                                                 *)
(***************************************************************************)
MaxChunks == 7

MaxTopK == 3

PageTexts == {<<"p1">>, <<"p2", "p3">>, <<" ">>}

PageOutcomes ==
    {[raises |-> TRUE, text |-> <<>>]} \cup
    {[raises |-> FALSE, text |-> t] : t \in PageTexts \cup {<<>>}}

Extensions == {".pdf", ".PDF", ".txt"}

ReaderOutcomes == {"ok", "PdfReadError", "Exception"}

PdfInputs ==
    [exists : BOOLEAN, ext : Extensions, reader : ReaderOutcomes,
     is_encrypted : BOOLEAN, pages : SeqsUpTo(PageOutcomes, MaxPages)]

\* Methodology texts: none, one of MaxChunks chunks, one of two, one of four.
Methodologies ==
    { <<>>,
      JoinLines([i \in 1..MaxChunks |-> <<"a" \o ToString(i)>>]),
      <<"b1", NL, "b2">>,
      <<"c1", "c2", NL, NL, "c3", " ", "c4">> }

Queries == {<<"q1">>, <<"q2">>}

FailPoints(text) == 0..Len(create_documents(text))

Page(text) == [raises |-> FALSE, text |-> text]

\* The files offered to the upload handler: the uploader takes PDF names only.
UploadedPdfs ==
    { [reader |-> "ok", is_encrypted |-> FALSE,
       pages |-> <<Page(<<"p1">>), Page(<<>>), Page(<<"p2", "p3">>)>>],
      [reader |-> "ok", is_encrypted |-> FALSE, pages |-> <<Page(<<"p1">>)>>],
      [reader |-> "ok", is_encrypted |-> FALSE, pages |-> <<Page(<<" ">>)>>],
      [reader |-> "ok", is_encrypted |-> FALSE, pages |-> <<Page(<<>>)>>],
      [reader |-> "ok", is_encrypted |-> TRUE, pages |-> <<Page(<<"p1">>)>>],
      [reader |-> "PdfReadError", is_encrypted |-> FALSE, pages |-> <<>>] }

AppUploadedPdfs ==
    { [reader |-> "ok", is_encrypted |-> FALSE,
       pages |-> <<Page(<<"p1">>), Page(<<>>), Page(<<"p2", "p3">>)>>],
      [reader |-> "ok", is_encrypted |-> TRUE, pages |-> <<Page(<<"p1">>)>>] }

UploadNames == {[stem |-> "methodology", ext |-> ".pdf"]}

\* The text the upload handler extracts from an uploaded file, once written.
UploadedText(name, pdf) ==
    extract_text_from_pdf([exists |-> TRUE, ext |-> name.ext, reader |-> pdf.reader,
                           is_encrypted |-> pdf.is_encrypted, pages |-> pdf.pages])

UploadFailPoints(name, pdf) ==
    IF UploadedText(name, pdf).ok THEN FailPoints(UploadedText(name, pdf).value) ELSE {0}

\* "", "2024-001" and "2024-002".
CaseNumbers == {<<"">>, <<"2024-001">>, <<"2024-002">>}

Descriptions == {<<>>, <<" ">>, <<"n1">>, <<NL, "n2", " ">>}

\* The texts handed to extract_facts and create_investigation_plan when
\* called on their own.
MaxTextLen == 2

Texts == SeqsUpTo({" ", NL, "f1"}, MaxTextLen)

\* The handlers create_investigation_plan may be given: none, or one built
\* from a methodology.
Handlers ==
    {NoHandler} \cup
    {[present |-> TRUE, vector_store |-> from_documents(WithMetadata(create_documents(t)), 0).value] :
        t \in {<<"b1", NL, "b2">>}}

TextResponse(content) == [kind |-> "text", content |-> content]

Failure(kind) == [kind |-> kind, content |-> <<>>]

FactResponses ==
    {TextResponse(<<"f1">>), TextResponse(<<" ", "f2", NL>>), TextResponse(<<" ">>),
     Failure("null"), Failure("APITimeoutError")}

PlanResponses ==
    {TextResponse(<<"plan1">>), TextResponse(<<"plan2", NL>>),
     Failure("APITimeoutError"), Failure("APIError")}

Responses == FactResponses \cup PlanResponses

\* The inputs of the planning handler.
AppDescriptions == {<<>>, <<" ">>, <<"n1">>}

AppFactResponses == {TextResponse(<<"f1">>), TextResponse(<<" ">>)}

AppPlanResponses == {TextResponse(<<"plan1", NL>>), Failure("APITimeoutError")}

(***************************************************************************)
(* State.                                                                  *)
(***************************************************************************)
NoOp == [op |-> "none"]

\* What has happened so far: where the manager's index comes from and the
\* documents of its last successful ingest, the documents of the last
\* successful upload, the last accepted planning request of each case
\* number, and the case numbers a result was written for.
NoHistory ==
    [manager_source |-> "none", manager_documents |-> <<>>,
     upload_documents |-> <<>>, requests |-> <<>>, persisted |-> {}]

Init ==
    /\ vector_store = NoStore
    /\ session_handler = NoHandler
    /\ index_files = [path \in {IndexPath} |-> NoStore]
    /\ directories = {}
    /\ methodology_files = {}
    /\ result_files = <<>>
    /\ history = NoHistory
    /\ last = NoOp

(***************************************************************************)
(* The extractor alone: a file is drawn, extract_text_from_pdf is called   *)
(* on it once.                                                             *)
(***************************************************************************)
InitPdf ==
    /\ vector_store = NoStore
    /\ session_handler = NoHandler
    /\ index_files = [path \in {IndexPath} |-> NoStore]
    /\ directories = {}
    /\ methodology_files = {}
    /\ result_files = <<>>
    /\ history = NoHistory
    /\ \E pdf \in PdfInputs : last = [op |-> "input", pdf |-> pdf]

ExtractTextFromPdf ==
    /\ last.op = "input"
    /\ last' = [op |-> "extract_text_from_pdf", pdf |-> last.pdf,
                result |-> extract_text_from_pdf(last.pdf), log |-> PageLog(last.pdf)]
    /\ UNCHANGED <<vector_store, session_handler, index_files, directories,
                   methodology_files, result_files, history>>

NextPdf == ExtractTextFromPdf

SpecPdf == InitPdf /\ [][NextPdf]_vars

(***************************************************************************)
(* The manager: one MethodologyHandler and the calls of its interface,     *)
(* beside the upload handler of the application.                           *)
(***************************************************************************)
ProcessMethodology(methodology_text, fail_at) ==
    LET call == process_methodology(vector_store, methodology_text, fail_at)
    IN  /\ vector_store' = call.vector_store
        /\ history' = IF call.outcome.ok
                      THEN [history EXCEPT
                               !.manager_source = "ingest",
                               !.manager_documents =
                                   WithMetadata(create_documents(methodology_text))]
                      ELSE history
        /\ last' = [op |-> "process_methodology", text |-> methodology_text,
                    fail_at |-> fail_at, before |-> vector_store,
                    result |-> call.outcome]
        /\ UNCHANGED <<session_handler, index_files, directories, methodology_files,
                       result_files>>

FindRelevantRecommendations(query, top_k, embed_ok) ==
    /\ last' = [op |-> "find_relevant_recommendations", query |-> query,
                top_k |-> top_k,
                result |-> find_relevant_recommendations(vector_store, query, top_k,
                                                         embed_ok)]
    /\ UNCHANGED <<vector_store, session_handler, index_files, directories,
                   methodology_files, result_files, history>>

GetRecommendationsContext(case_facts, embed_ok) ==
    /\ last' = [op |-> "get_recommendations_context", query |-> case_facts,
                result |-> get_recommendations_context(vector_store, case_facts,
                                                       embed_ok)]
    /\ UNCHANGED <<vector_store, session_handler, index_files, directories,
                   methodology_files, result_files, history>>

SaveIndex(path) ==
    /\ index_files' = save_index(vector_store, path, index_files)
    /\ last' = [op |-> "save_index", path |-> path]
    /\ UNCHANGED <<vector_store, session_handler, directories, methodology_files,
                   result_files, history>>

LoadIndex(path, load_ok) ==
    LET call == load_index(vector_store, path, index_files, load_ok)
    IN  /\ vector_store' = call.vector_store
        /\ history' = IF call.outcome.ok
                      THEN [history EXCEPT !.manager_source = "load"]
                      ELSE history
        /\ last' = [op |-> "load_index", path |-> path, result |-> call.outcome]
        /\ UNCHANGED <<session_handler, index_files, directories, methodology_files,
                       result_files>>

\* The "process methodology" button: the file is written, its text extracted,
\* a new handler built from it, its index saved and the handler kept in the
\* session; any exception ends the handler with an error message.
UploadMethodology(name, pdf, fail_at) ==
    LET extracted == UploadedText(name, pdf)
        call == process_methodology(NoStore,
                                    IF extracted.ok THEN extracted.value ELSE <<>>,
                                    fail_at)
        done == extracted.ok /\ call.outcome.ok
    IN  /\ directories' = directories \cup StorageDirectories
        /\ methodology_files' = methodology_files \cup {name}
        /\ session_handler' = IF done
                              THEN [present |-> TRUE, vector_store |-> call.vector_store]
                              ELSE session_handler
        /\ index_files' = IF done
                          THEN save_index(call.vector_store, IndexPath, index_files)
                          ELSE index_files
        /\ history' = IF done
                      THEN [history EXCEPT !.upload_documents =
                               WithMetadata(create_documents(extracted.value))]
                      ELSE history
        /\ last' = [op |-> "upload", pdf |-> pdf, fail_at |-> fail_at,
                    before |-> session_handler,
                    result |-> IF extracted.ok THEN call.outcome ELSE extracted]
        /\ UNCHANGED <<vector_store, result_files>>

Upload ==
    \E name \in UploadNames, pdf \in UploadedPdfs :
        \E fail_at \in UploadFailPoints(name, pdf) : UploadMethodology(name, pdf, fail_at)

\* The uploads of the application as a whole: a document of three pages, with
\* and without an embedding failure, and an encrypted one.
AppUpload ==
    \E name \in UploadNames, pdf \in AppUploadedPdfs, fail_at \in {0, 1} :
        UploadMethodology(name, pdf, fail_at)

NextIndex ==
    \/ \E text \in Methodologies, fail_at \in 0..MaxChunks :
           fail_at \in FailPoints(text) /\ ProcessMethodology(text, fail_at)
    \/ \E query \in Queries, top_k \in 1..MaxTopK, embed_ok \in BOOLEAN :
           FindRelevantRecommendations(query, top_k, embed_ok)
    \/ \E query \in Queries, embed_ok \in BOOLEAN :
           GetRecommendationsContext(query, embed_ok)
    \/ SaveIndex(IndexPath)
    \/ \E load_ok \in BOOLEAN : LoadIndex(IndexPath, load_ok)
    \/ Upload

SpecIndex == Init /\ [][NextIndex]_vars

(***************************************************************************)
(* extract_facts and create_investigation_plan alone: the inputs of one    *)
(* call are drawn, the call is made once.                                  *)
(***************************************************************************)
InitGen ==
    /\ vector_store = NoStore
    /\ session_handler = NoHandler
    /\ index_files = [path \in {IndexPath} |-> NoStore]
    /\ directories = {}
    /\ methodology_files = {}
    /\ result_files = <<>>
    /\ history = NoHistory
    /\ \E fn \in {"extract_facts", "create_investigation_plan"}, text \in Texts,
          response \in Responses, handler \in Handlers, embed_ok \in BOOLEAN :
          last = [op |-> "input", fn |-> fn, text |-> text, response |-> response,
                  handler |-> handler, embed_ok |-> embed_ok]

ExtractFacts ==
    /\ last.op = "input"
    /\ last.fn = "extract_facts"
    /\ last' = [op |-> "extract_facts", text |-> last.text, response |-> last.response,
                handler |-> last.handler,
                result |-> extract_facts(last.text, last.response)]
    /\ UNCHANGED <<vector_store, session_handler, index_files, directories,
                   methodology_files, result_files, history>>

CreateInvestigationPlan ==
    /\ last.op = "input"
    /\ last.fn = "create_investigation_plan"
    /\ last' = [op |-> "create_investigation_plan", text |-> last.text,
                response |-> last.response, handler |-> last.handler,
                result |-> create_investigation_plan(last.text, last.handler,
                                                     last.embed_ok, last.response)]
    /\ UNCHANGED <<vector_store, session_handler, index_files, directories,
                   methodology_files, result_files, history>>

NextGen == ExtractFacts \/ CreateInvestigationPlan

SpecGen == InitGen /\ [][NextGen]_vars

(***************************************************************************)
(* The application: the upload handler and the planning handler, with the  *)
(* API key configured.                                                     *)
(***************************************************************************)
\* What one call of extract_facts or create_investigation_plan does, in the
\* order of its statements: it is entered with its text, consults the
\* methodology handler (create_investigation_plan only), calls the Generation
\* Client with its prompt, and returns.
CallEvents(fn, text, call) ==
    <<[kind |-> "call", fn |-> fn, text |-> text]>>
    \o (IF call.retrieval_calls = 1
        THEN <<[kind |-> "retrieval", fn |-> fn, text |-> text]>>
        ELSE <<>>)
    \o (IF call.gen_calls = 1
        THEN <<[kind |-> "generation", fn |-> fn, text |-> call.prompt.payload]>>
        ELSE <<>>)
    \o <<[kind |-> "return", fn |-> fn, text |-> call.outcome.value]>>

\* Plan generation that is handed the narrative and not the extracted facts.
PlanningCalls_FromNarrative(case_description, facts_response, handler, embed_ok, plan_response) ==
    LET facts_call == extract_facts(case_description, facts_response)
        plan_call == create_investigation_plan(case_description, handler, embed_ok,
                                               plan_response)
    IN  [facts_call |-> facts_call, plan_call |-> plan_call,
         events |-> CallEvents("extract_facts", case_description, facts_call)
                    \o CallEvents("create_investigation_plan", case_description,
                                  plan_call)]

\* The two calls of an accepted request: the facts are extracted, then the
\* plan is made from what extract_facts returned.
PlanningCalls(case_description, facts_response, handler, embed_ok, plan_response) ==
    LET facts_call == extract_facts(case_description, facts_response)
        facts == facts_call.outcome.value
        plan_call == create_investigation_plan(facts, handler, embed_ok, plan_response)
    IN  [facts_call |-> facts_call, plan_call |-> plan_call,
         events |-> CallEvents("extract_facts", case_description, facts_call)
                    \o CallEvents("create_investigation_plan", facts, plan_call)]

\* The "make the plan" button.  The stored result also carries generated_at,
\* the time of the request, which is not kept here.
PlanningRequest(case_number, case_description, facts_response, embed_ok, plan_response) ==
    IF case_number = <<"">> \/ case_description = <<>>
    THEN /\ last' = [op |-> "planning", case_number |-> case_number,
                     case_description |-> case_description, accepted |-> FALSE,
                     events |-> <<>>]
         /\ UNCHANGED <<vector_store, session_handler, index_files, directories,
                        methodology_files, result_files, history>>
    ELSE \E calls \in {PlanningCalls(case_description, facts_response, session_handler,
                                      embed_ok, plan_response)} :
         LET facts_call == calls.facts_call
             facts == facts_call.outcome.value
             plan_call == calls.plan_call
             plan == plan_call.outcome.value
             results == [case_number |-> case_number, facts |-> facts, plan |-> plan]
             results_path == ResultsPath(case_number)
             written == CanWrite(results_path, directories)
         IN  /\ result_files' = IF written
                                THEN (results_path :> results) @@ result_files
                                ELSE result_files
             /\ history' = [history EXCEPT
                               !.requests = (case_number :> results) @@ @,
                               !.persisted = IF written THEN @ \cup {case_number} ELSE @]
             /\ last' = [op |-> "planning", case_number |-> case_number,
                         case_description |-> case_description, accepted |-> TRUE,
                         facts_call |-> facts_call, plan_call |-> plan_call,
                         events |-> calls.events
                                    \o <<[kind |-> IF written THEN "persist" ELSE "error",
                                          fn |-> "open", text |-> plan]>>,
                         persisted |-> written,
                         replaced |-> /\ written
                                      /\ results_path \in DOMAIN result_files
                                      /\ result_files[results_path] # results]
             /\ UNCHANGED <<vector_store, session_handler, index_files, directories,
                            methodology_files>>

Planning ==
    \E case_number \in CaseNumbers, case_description \in AppDescriptions,
       facts_response \in AppFactResponses,
       embed_ok \in (IF session_handler.present THEN BOOLEAN ELSE {TRUE}),
       plan_response \in AppPlanResponses :
        PlanningRequest(case_number, case_description, facts_response, embed_ok,
                        plan_response)

Next == AppUpload \/ Planning

Spec == Init /\ [][Next]_vars

(***************************************************************************)
(* Claims.                                                                 *)
(***************************************************************************)
Extracted == last.op = "extract_text_from_pdf"

\* The file can be opened and parsed: it exists, has the PDF extension, the
\* reader accepts it and it is not encrypted.
Readable(pdf) ==
    /\ pdf.exists
    /\ Lower(pdf.ext) = ".pdf"
    /\ pdf.reader = "ok"
    /\ ~pdf.is_encrypted

Yields(page) == ~page.raises /\ page.text # <<>>

YieldingTexts(pages) ==
    LET yielding == SelectSeq(pages, Yields)
    IN  [i \in 1..Len(yielding) |-> yielding[i].text]

\* Where part i starts in the joined text: after the parts before it and one
\* newline for each of them.
RECURSIVE PartOffset(_, _)
PartOffset(parts, i) ==
    IF i = 1 THEN 0 ELSE PartOffset(parts, i - 1) + Len(parts[i - 1]) + 1

\* text is exactly the parts in order, one newline between neighbours.
IsNewlineJoin(text, parts) ==
    /\ parts # <<>>
    /\ Len(text) = PartOffset(parts, Len(parts)) + Len(parts[Len(parts)])
    /\ \A i \in 1..Len(parts) :
          /\ SubSeq(text, PartOffset(parts, i) + 1,
                    PartOffset(parts, i) + Len(parts[i])) = parts[i]
          /\ i > 1 => text[PartOffset(parts, i)] = NL

\* The error kinds of the specification, read off the exception raised: its
\* class and the message the code gives it.
ErrorKind(result) ==
    IF result.ok THEN "none"
    ELSE IF result.exc = "FileNotFoundError" THEN "NotFound"
    ELSE IF result.exc # "PDFParsingError" THEN "other"
    ELSE IF result.msg = "not a PDF" THEN "UnsupportedFormat"
    ELSE IF result.msg = "PDF is encrypted" THEN "Encrypted"
    ELSE IF result.msg \in {"PDF read error", "unexpected error", "no text extracted"}
    THEN "ExtractionFailed"
    ELSE "other"

\* C8: on a readable document, extract succeeds if and only if at least one
\* page yields text; it then returns exactly the texts of the yielding pages
\* in page order, joined by newlines; otherwise it fails with
\* ExtractionFailed.
C8_PartialFailurePolicy ==
    (Extracted /\ Readable(last.pdf)) =>
        LET parts == YieldingTexts(last.pdf.pages)
        IN  /\ last.result.ok <=> parts # <<>>
            /\ last.result.ok => IsNewlineJoin(last.result.value, parts)
            /\ ~last.result.ok => ErrorKind(last.result) = "ExtractionFailed"

\* A three-page document whose first and last page yield text and whose
\* middle page does not (one such page empty or raising), extracted.
C8_Witness ==
    /\ Extracted
    /\ Readable(last.pdf)
    /\ Len(last.pdf.pages) = 3
    /\ Yields(last.pdf.pages[1])
    /\ last.pdf.pages[2] = [raises |-> FALSE, text |-> <<>>]
    /\ Yields(last.pdf.pages[3])
    /\ last.result.ok
    /\ last.result.value = last.pdf.pages[1].text \o <<NL>> \o last.pdf.pages[3].text

\* C9: each precondition violation has its own error kind, in the order the
\* code tests them: NotFound if the path does not exist, whatever its
\* extension; UnsupportedFormat if it exists without the PDF extension;
\* Encrypted if the parsed document is encrypted; ExtractionFailed if the
\* parser raises or no page yields text.  Each of them is raised: nothing is
\* returned.
C9_ErrorKinds ==
    Extracted =>
        LET pdf == last.pdf
            kind == ErrorKind(last.result)
        IN  /\ ~pdf.exists => kind = "NotFound"
            /\ (pdf.exists /\ Lower(pdf.ext) # ".pdf") => kind = "UnsupportedFormat"
            /\ (pdf.exists /\ Lower(pdf.ext) = ".pdf" /\ pdf.reader = "ok"
                  /\ pdf.is_encrypted) => kind = "Encrypted"
            /\ (pdf.exists /\ Lower(pdf.ext) = ".pdf" /\ pdf.reader # "ok")
                  => kind = "ExtractionFailed"
            /\ (Readable(pdf) /\ YieldingTexts(pdf.pages) = <<>>)
                  => kind = "ExtractionFailed"
            /\ kind # "none" => ~last.result.ok
            /\ kind # "other"

\* A missing path without the PDF extension is reported as NotFound.
C9_Witness ==
    /\ Extracted
    /\ ~last.pdf.exists
    /\ last.pdf.ext = ".txt"
    /\ last.result = Raised("FileNotFoundError", "file not found")

(***************************************************************************)
(* Claims about the manager (SpecIndex).                                   *)
(***************************************************************************)
Recommended == last.op \in {"find_relevant_recommendations", "get_recommendations_context"}

NotBuilt == Raised("ValueError", "methodology not loaded")

\* The records a successful recommend call gave back, as (chunk_id, text).
RecordsOf(call) ==
    IF call.op = "find_relevant_recommendations"
    THEN {<<call.result.value[i].chunk_id, call.result.value[i].page_content>> :
             i \in 1..Len(call.result.value)}
    ELSE {<<call.result.value.lines[i].chunk_id, call.result.value.lines[i].page_content>> :
             i \in 1..Len(call.result.value.lines)}

ChunksOf(documents) ==
    {<<documents[i].chunk_id, documents[i].page_content>> : i \in 1..Len(documents)}

\* C1: as long as the manager has had no successful ingest and no successful
\* load, every recommend call raises NotBuilt and returns nothing.
C1_NotBuiltWithoutIndex ==
    (Recommended /\ history.manager_source = "none") => last.result = NotBuilt

\* recommend called on a manager that never ingested nor loaded, while an
\* index saved by an upload lies on disk.
C1_Witness ==
    /\ last.op = "get_recommendations_context"
    /\ history.manager_source = "none"
    /\ index_files[IndexPath].active
    /\ last.result = NotBuilt

\* C2: ingest of the empty text on a fresh manager returns 0 chunks without
\* raising and leaves the manager without an active index.
C2_EmptyIngestReturnsZero ==
    (last.op = "process_methodology" /\ last.text = <<>> /\ last.before = NoStore) =>
        /\ last.result = Returned(0)
        /\ ~vector_store.active

\* C3: an ingest in which an embedding call fails raises, and leaves the
\* manager's index exactly as it was before the call; an upload in which an
\* embedding call fails leaves the session's handler as it was.
C3_IngestAllOrNothing ==
    /\ (last.op = "process_methodology" /\ last.fail_at > 0) =>
          /\ ~last.result.ok
          /\ last.result.exc = "EmbeddingError"
          /\ vector_store = last.before
    /\ (last.op = "upload" /\ last.fail_at > 0) =>
          /\ ~last.result.ok
          /\ last.result.exc = "EmbeddingError"
          /\ session_handler = last.before

\* An ingest of several chunks fails at a chunk after the first, on a manager
\* that holds an index: that index is still the active one.
C3_Witness ==
    /\ last.op = "process_methodology"
    /\ last.fail_at > 1
    /\ last.before.active
    /\ ~last.result.ok
    /\ vector_store = last.before

\* C4: the manager's index is the index of its most recent successful ingest,
\* whole: it holds exactly that ingest's chunks, and every record recommend
\* returns is one of them; the session's handler holds exactly the chunks of
\* the most recent successful upload.
C4_IndexReplacedWholesale ==
    /\ history.manager_source = "ingest" =>
          /\ vector_store.active
          /\ vector_store.docstore = history.manager_documents
          /\ (Recommended /\ last.result.ok) =>
                RecordsOf(last) \subseteq ChunksOf(history.manager_documents)
    /\ session_handler.present =>
          /\ session_handler.vector_store.active
          /\ session_handler.vector_store.docstore = history.upload_documents

\* recommend returns records of the second document after the index of a
\* first document was built and saved.
C4_Witness ==
    /\ last.op = "find_relevant_recommendations"
    /\ last.result.ok
    /\ history.manager_source = "ingest"
    /\ index_files[IndexPath].active
    /\ index_files[IndexPath].docstore[1].page_content = "a1"
    /\ vector_store.docstore[1].page_content = "b1"
    /\ RecordsOf(last) = ChunksOf(history.manager_documents)

\* The records of the store strictly before position i in the order of the
\* search: nearer to the query, or as near and at a lower position.
Before(store, query, i) ==
    {j \in 1..Len(store.index) :
        \/ L2(store.index[j], EmbedText(query)) < L2(store.index[i], EmbedText(query))
        \/ L2(store.index[j], EmbedText(query)) = L2(store.index[i], EmbedText(query))
             /\ j < i}

Min(a, b) == IF a <= b THEN a ELSE b

\* C5: search with k and fetch_k = 2k returns min(k, N) records of an index
\* of N records, no record twice, each among the 2k nearest to the query;
\* recommend gives min(3, N) lines numbered 1, 2, ..., each with the chunk_id
\* and the text of one record of the index.
C5_SearchBounds ==
    /\ (last.op = "find_relevant_recommendations" /\ last.result.ok) =>
          LET docs == last.result.value
              N == Len(vector_store.docstore)
          IN  /\ Len(docs) <= last.top_k
              /\ Len(docs) = Min(last.top_k, N)
              /\ \A i, j \in 1..Len(docs) : i # j => docs[i] # docs[j]
              /\ \A i \in 1..Len(docs) :
                    \E p \in 1..N :
                        /\ vector_store.docstore[p] = docs[i]
                        /\ Cardinality(Before(vector_store, last.query, p)) < 2 * last.top_k
    /\ (last.op = "get_recommendations_context" /\ last.result.ok) =>
          LET lines == last.result.value.lines
              N == Len(vector_store.docstore)
          IN  /\ Len(lines) = Min(DefaultTopK, N)
              /\ \A i \in 1..Len(lines) :
                    /\ lines[i].n = i
                    /\ \E p \in 1..N :
                          /\ vector_store.docstore[p].chunk_id = lines[i].chunk_id
                          /\ vector_store.docstore[p].page_content = lines[i].page_content
              /\ \A i, j \in 1..Len(lines) : i # j => lines[i].chunk_id # lines[j].chunk_id

\* A search for three records on an index of more than six: three come back,
\* and not the three nearest.
C5_Witness ==
    /\ last.op = "find_relevant_recommendations"
    /\ last.result.ok
    /\ last.top_k = 3
    /\ Len(vector_store.docstore) > 6
    /\ Len(last.result.value) = 3
    /\ \E i \in 1..3 : \E p \in 1..Len(vector_store.docstore) :
          /\ vector_store.docstore[p] = last.result.value[i]
          /\ Cardinality(Before(vector_store, last.query, p)) >= 3

(***************************************************************************)
(* Claims about extract_facts and create_investigation_plan (SpecGen).     *)
(***************************************************************************)
\* Empty or made of whitespace only.
Blank(text) == \A i \in 1..Len(text) : text[i] \in Whitespace

GenerationFailed(response) == response.kind \in {"APITimeoutError", "APIError"}

\* C6: extract_facts on a blank description and create_investigation_plan on
\* blank facts return their validation message and call neither the
\* Generation Client nor, for the plan, retrieval.
C6_BlankInputRejected ==
    /\ (last.op = "extract_facts" /\ Blank(last.text)) =>
          /\ last.result.outcome =
                 Returned(<<"Error: the case description must not be empty">>)
          /\ last.result.gen_calls = 0
    /\ (last.op = "create_investigation_plan" /\ Blank(last.text)) =>
          /\ last.result.outcome = Returned(<<"Error: the facts must not be empty">>)
          /\ last.result.gen_calls = 0
          /\ last.result.retrieval_calls = 0

\* create_investigation_plan called with facts of whitespace only and a
\* handler that holds an index.
C6_Witness ==
    /\ last.op = "create_investigation_plan"
    /\ last.text # <<>>
    /\ Blank(last.text)
    /\ last.handler.present
    /\ last.result.gen_calls = 0
    /\ last.result.retrieval_calls = 0

\* C7: when the Generation Client fails (a timeout, an API error) on a call
\* with a non-blank input, the operation has called it exactly once and
\* returns, without raising, a text made of its error prefix and the failure.
C7_GenerationFailureReturned ==
    /\ (last.op = "extract_facts" /\ ~Blank(last.text)
          /\ GenerationFailed(last.response)) =>
          /\ last.result.gen_calls = 1
          /\ last.result.outcome =
                 Returned(<<"Error extracting facts: ", last.response.kind>>)
    /\ (last.op = "create_investigation_plan" /\ ~Blank(last.text)
          /\ GenerationFailed(last.response)) =>
          /\ last.result.gen_calls = 1
          /\ last.result.outcome =
                 Returned(<<"Error creating the plan: ", last.response.kind>>)

\* extract_facts on a description whose generation request timed out.
C7_Witness ==
    /\ last.op = "extract_facts"
    /\ ~Blank(last.text)
    /\ last.response.kind = "APITimeoutError"
    /\ last.result.gen_calls = 1
    /\ last.result.outcome.ok

(***************************************************************************)
(* Claims about the application (Spec).                                    *)
(***************************************************************************)
\* The stored results that carry a case number.
StoredUnder(case_number) ==
    {path \in DOMAIN result_files : result_files[path].case_number = case_number}

\* C10: every stored result carries a case number a result was written for;
\* each such case number has exactly one stored result, at the path of that
\* case number, holding the case number, facts and plan of the most recent
\* accepted request with it: a request leaves the results of the other case
\* numbers in place and unchanged.
C10_LastWriterWins ==
    /\ \A path \in DOMAIN result_files :
          result_files[path].case_number \in history.persisted
    /\ \A case_number \in history.persisted :
          /\ StoredUnder(case_number) = {ResultsPath(case_number)}
          /\ result_files[ResultsPath(case_number)] = history.requests[case_number]
    /\ \A case_number \in CaseNumbers :
          Cardinality(StoredUnder(case_number)) <= 1

\* A request has replaced the stored result of its case number by a different
\* one, while a result of the other case number is stored.
C10_Witness ==
    /\ last.op = "planning"
    /\ last.accepted
    /\ last.replaced
    /\ last.case_number = <<"2024-001">>
    /\ result_files[ResultsPath(<<"2024-001">>)].plan = last.plan_call.outcome.value
    /\ ResultsPath(<<"2024-002">>) \in DOMAIN result_files

\* The places of the log of the last request where a step of this kind was
\* made by this function.
Steps(kind, fn) ==
    {i \in DOMAIN last.events : last.events[i].kind = kind /\ last.events[i].fn = fn}

\* The order and the data of the steps of an accepted request.
Sequential ==
    LET events == last.events
        facts_returned == Steps("return", "extract_facts")
        plan_called == Steps("call", "create_investigation_plan")
        plan_returned == Steps("return", "create_investigation_plan")
        persists == Steps("persist", "open")
    IN  /\ Cardinality(facts_returned) = 1
        /\ Cardinality(plan_called) = 1
        /\ Cardinality(plan_returned) = 1
        /\ \A r \in facts_returned :
              /\ events[r].text = last.facts_call.outcome.value
              /\ \A i \in DOMAIN events :
                    events[i].fn = "create_investigation_plan" => r < i
              /\ \A i \in plan_called \cup Steps("retrieval", "create_investigation_plan")
                             \cup Steps("generation", "create_investigation_plan") :
                    events[i].text = events[r].text
              /\ \A i \in persists : r < i
        /\ \A r \in plan_returned :
              /\ events[r].text = last.plan_call.outcome.value
              /\ \A i \in persists : r < i
        /\ last.persisted <=> persists # {}
        /\ last.persisted =>
              /\ ResultsPath(last.case_number) \in DOMAIN result_files
              /\ result_files[ResultsPath(last.case_number)].facts
                    = last.facts_call.outcome.value
              /\ result_files[ResultsPath(last.case_number)].plan
                    = last.plan_call.outcome.value

\* A request is accepted exactly when both fields are non-empty; a request
\* that is not accepted has made no step at all.
Gated ==
    /\ last.accepted <=> (last.case_number # <<"">> /\ last.case_description # <<>>)
    /\ ~last.accepted => last.events = <<>>

\* The stored results change only in an accepted request whose two calls
\* have returned; a request that is not accepted leaves them as they were.
PersistsOnlyAccepted ==
    /\ result_files' # result_files =>
          /\ last'.op = "planning"
          /\ last'.accepted
          /\ last'.persisted
    /\ (last'.op = "planning" /\ ~last'.accepted) => result_files' = result_files

\* C11: within one accepted planning request (non-empty case number and
\* narrative) fact extraction returns before retrieval and plan generation
\* start, plan generation receives exactly the text fact extraction returned,
\* and the result is persisted only after both have returned; a request with
\* an empty case number or an empty narrative makes no Generation Client call
\* and persists nothing.
C11_SequentialAndGated ==
    /\ [](last.op = "planning" => Gated /\ (last.accepted => Sequential))
    /\ [][PersistsOnlyAccepted]_vars

\* An accepted request with a methodology loaded: facts were generated, the
\* methodology was consulted with them, the plan was generated from them and
\* the result was stored.
C11_Witness ==
    /\ last.op = "planning"
    /\ last.accepted
    /\ last.persisted
    /\ last.facts_call.gen_calls = 1
    /\ last.plan_call.retrieval_calls = 1
    /\ last.plan_call.gen_calls = 1
    /\ last.facts_call.outcome.value # last.case_description
    /\ last.plan_call.prompt.payload = last.facts_call.outcome.value
    /\ Len(last.events) = 8

====
